---- MODULE Spec2Model ----
(***************************************************************************)
(* Smart Rockets (src/src/main.rs): the generation life cycle of the       *)
(* World -- per-frame input handling, update ticks, collision and target   *)
(* classification, and the restart (calc_fitness, gen_mating_pool,         *)
(* selection) that breeds the next generation.                             *)
(*                                                                         *)
(* Numbers.  f32 coordinates are fixed-point integers in 1/Scale of a      *)
(* world unit; cos and sin come from a table of 1/Scale values for the     *)
(* multiples of 10 degrees, and genes are drawn from the finite subset     *)
(* GeneSet of [-DEGREE_CHANGE, DEGREE_CHANGE).  Fitness values are exact   *)
(* rationals [num, den].  The world (screen, walls, target) is a scaled    *)
(* down copy of the one World::new builds, so that rockets meet the walls, *)
(* the world edge and the target within GENE_LEN ticks.                    *)
(*                                                                         *)
(* Specifications.  Spec is the program: main's frames from World::new.    *)
(* SpecDNA calls DNA::next_angle and DNA::crossover directly on the DNAs   *)
(* of a new World.  SpecWorld runs update and the three steps of restart   *)
(* on World values with the rockets placed at probe positions in any       *)
(* state, among them populations the program does not fly into (on an      *)
(* edge, on the target's centre).                                          *)
(***************************************************************************)
EXTENDS Integers, Sequences, FiniteSets, TLC

\* ------------------------------------------- program constants, scaled down
\* (400 genes and 80 rockets in the source: every genome of GENE_LEN genes and
\* every population of ROCKET_COUNT rockets is explored)
GENE_LEN == 4
ROCKET_COUNT == 2

\* ---------------------------------------------------------------- bounds
\* the world's extent and the target's radius, in world units
SCREEN_WIDTH == 3
SCREEN_HEIGHT == 12
TARGET_RADIUS == 4
\* restart is not taken beyond this generation
MaxGen == 2
\* next_angle is called directly at most this often beyond the genome's length
ExtraCalls == 2

\* ------------------------------------------------------ program constants
DEGREE_CHANGE == 10
ROCKET_SPEED == 3
WALL_COUNT == 2

\* fixed-point resolution of an f32 coordinate
Scale == 1000

\* the values rand_f32(-DEGREE_CHANGE, DEGREE_CHANGE) is drawn from
GeneSet == {-DEGREE_CHANGE, 0}

RocketInds == 0 .. (ROCKET_COUNT - 1)
GeneInds == 0 .. (GENE_LEN - 1)
Genomes == [GeneInds -> GeneSet]

\* ------------------------------------------------------------ arithmetic
\* sin of 0, 10, ..., 90 degrees in 1/Scale
SinTable == <<0, 174, 342, 500, 643, 766, 866, 940, 985, 1000>>

Sin1000(deg) ==
    LET m == deg % 360
    IN  IF m <= 90 THEN SinTable[(m \div 10) + 1]
        ELSE IF m <= 180 THEN SinTable[((180 - m) \div 10) + 1]
        ELSE IF m <= 270 THEN -SinTable[((m - 180) \div 10) + 1]
        ELSE -SinTable[((360 - m) \div 10) + 1]

Cos1000(deg) == Sin1000(deg + 90)

RECURSIVE SqrtSearch(_, _, _)
SqrtSearch(n, lo, hi) ==
    IF lo >= hi THEN lo
    ELSE LET mid == (lo + hi + 1) \div 2
         IN  IF mid * mid <= n THEN SqrtSearch(n, mid, hi)
             ELSE SqrtSearch(n, lo, mid - 1)

\* f32::sqrt, rounded down to 1/Scale
Sqrt(n) == SqrtSearch(n, 0, 40000)

\* ------------------------------------------------------------------- DNA
DNA_new == [genes |-> [i \in GeneInds |-> 0], curr_gene |-> 0,
            fitness |-> [num |-> 0, den |-> 1]]

\* DNA::randomize: every gene redrawn
randomize(dna) == {[dna EXCEPT !.genes = g] : g \in Genomes}

\* next_angle that reuses the last gene but goes on counting
next_angle_counts_on(dna) ==
    IF dna.curr_gene >= GENE_LEN
    THEN <<dna.genes[GENE_LEN - 1], [dna EXCEPT !.curr_gene = @ + 1]>>
    ELSE <<dna.genes[dna.curr_gene], [dna EXCEPT !.curr_gene = @ + 1]>>

\* DNA::next_angle: <<returned angle, dna afterwards>>
next_angle(dna) ==
    IF dna.curr_gene >= GENE_LEN
    THEN <<dna.genes[GENE_LEN - 1], dna>>
    ELSE <<dna.genes[dna.curr_gene], [dna EXCEPT !.curr_gene = @ + 1]>>

\* crossover whose child inherits parent_a's cursor
crossover_keeps_cursor(parent_a, parent_b, rand_split_point) ==
    [DNA_new EXCEPT !.curr_gene = parent_a.curr_gene,
                    !.genes = [i \in GeneInds |->
        IF i < rand_split_point THEN parent_a.genes[i] ELSE parent_b.genes[i]]]

\* crossover that takes the gene at the split point from parent_a as well
crossover_split_inclusive(parent_a, parent_b, rand_split_point) ==
    [DNA_new EXCEPT !.genes = [i \in GeneInds |->
        IF i <= rand_split_point THEN parent_a.genes[i] ELSE parent_b.genes[i]]]

\* DNA::crossover with split point rand_split_point
crossover(parent_a, parent_b, rand_split_point) ==
    [DNA_new EXCEPT !.genes = [i \in GeneInds |->
        IF i < rand_split_point THEN parent_a.genes[i] ELSE parent_b.genes[i]]]

\* DNA::mutate: each gene is kept or redrawn
mutate(dna) ==
    {[dna EXCEPT !.genes = g] :
        g \in {h \in Genomes : \A i \in GeneInds : h[i] = dna.genes[i] \/ h[i] \in GeneSet}}

\* ---------------------------------------------------------------- Rocket
Rocket_new(pos) ==
    [dna |-> DNA_new, pos |-> pos, angle |-> -90, state |-> "Alive",
     dist_from_target |-> 0]

calc_offset(rocket) ==
    [x |-> ROCKET_SPEED * Cos1000(rocket.angle),
     y |-> ROCKET_SPEED * Sin1000(rocket.angle)]

\* ----------------------------------------------------------------- World
StartPos == [x |-> (SCREEN_WIDTH \div 2) * Scale, y |-> (SCREEN_HEIGHT - 2) * Scale]

WALL_SIZE == [x |-> 1 * Scale, y |-> 2 * Scale]

walls == <<[x |-> Scale \div 2, y |-> 0, width |-> WALL_SIZE.x, height |-> WALL_SIZE.y],
           [x |-> 2 * Scale, y |-> 4 * Scale, width |-> WALL_SIZE.x, height |-> WALL_SIZE.y]>>

target == [x |-> -3100, y |-> 4 * Scale]

\* timer_rect.width is kept in 1/GENE_LEN of a world unit
TimerFull == SCREEN_WIDTH * GENE_LEN

VARIABLES
    rockets,        \* World::rockets
    alive_count,    \* World::alive_count
    frame_counter,  \* World::frame_counter
    timer_rect,     \* World::timer_rect
    generation,     \* World::generation
    mating_pool,    \* World::mating_pool
    pause,          \* main: pause
    pc,             \* main: phase of the current frame
    panicked,       \* the process aborted in selection
    frame_start,    \* history: pause, generation, clock, alive-count at the frame's start
    frame_cmd,      \* history: the command handle_input returned in this frame
    base_gen,       \* history: generation at construction or at the last manual reset
    upd_total,      \* history: update invocations since then
    call            \* history: the last direct call of a DNA function and what it returned

world == <<rockets, alive_count, frame_counter, timer_rect, generation, mating_pool>>
vars == <<rockets, alive_count, frame_counter, timer_rect, generation, mating_pool,
          pause, pc, panicked, frame_start, frame_cmd, base_gen, upd_total, call>>

World_timer_rect == [x |-> 0, y |-> SCREEN_HEIGHT * Scale, width |-> TimerFull, height |-> Scale]

\* collision_world that counts the world's edge as outside
collision_world_closed(pos) ==
    \/ pos.x <= 0
    \/ pos.x >= SCREEN_WIDTH * Scale
    \/ pos.y <= 0
    \/ pos.y >= SCREEN_HEIGHT * Scale

\* World::collision_world
collision_world(pos) ==
    \/ pos.x < 0
    \/ pos.x > SCREEN_WIDTH * Scale
    \/ pos.y < 0
    \/ pos.y > SCREEN_HEIGHT * Scale

\* World::collision_wall
collision_wall(pos) ==
    \E w \in 1 .. WALL_COUNT :
        /\ pos.x > walls[w].x
        /\ pos.x < walls[w].x + walls[w].width
        /\ pos.y > walls[w].y
        /\ pos.y < walls[w].y + walls[w].height

\* World::collision_rocket
collision_rocket(rs, ind) == collision_world(rs[ind].pos) \/ collision_wall(rs[ind].pos)

Dist(pos) ==
    LET dx == target.x - pos.x
        dy == target.y - pos.y
    IN  Sqrt(dx * dx + dy * dy)

\* World::collision_target
collision_target(rs, ind) == Dist(rs[ind].pos) < TARGET_RADIUS * Scale

\* World::calc_dist_from_target
calc_dist_from_target(rs) ==
    [ind \in RocketInds |-> [rs[ind] EXCEPT !.dist_from_target = Dist(rs[ind].pos)]]

RECURSIVE DistSum(_, _)
DistSum(rs, ind) ==
    IF ind = ROCKET_COUNT THEN 0 ELSE rs[ind].dist_from_target + DistSum(rs, ind + 1)

\* calc_fitness that leaves out the subtraction from 1
calc_fitness_share(rs) ==
    LET measured == calc_dist_from_target(rs)
        dist_from_target_sum == DistSum(measured, 0)
    IN  [ind \in RocketInds |->
            [measured[ind] EXCEPT !.dna.fitness =
                [num |-> measured[ind].dist_from_target, den |-> dist_from_target_sum]]]

\* World::calc_fitness: fitness = 1 - dist / sum, the rational (sum - dist) / sum;
\* den = 0 stands for the NaN of 0.0 / 0.0
calc_fitness(rs) ==
    LET measured == calc_dist_from_target(rs)
        dist_from_target_sum == DistSum(measured, 0)
    IN  [ind \in RocketInds |->
            [measured[ind] EXCEPT !.dna.fitness =
                [num |-> dist_from_target_sum - measured[ind].dist_from_target,
                 den |-> dist_from_target_sum]]]

\* PoolShare that leaves out the factor 100
PoolShare_no_percent(rocket) ==
    LET f == rocket.dna.fitness
        n == IF f.den = 0 THEN 0
             ELSE CASE rocket.state = "Dead" -> (f.num * 6) \div (f.den * 10)
                    [] rocket.state = "Alive" -> f.num \div f.den
                    [] rocket.state = "Successful" -> (f.num * 2) \div f.den
    IN  IF n < 0 THEN 0 ELSE n

\* PoolShare that drops the state's factor
PoolShare_unweighted(rocket) ==
    LET f == rocket.dna.fitness
        n == IF f.den = 0 THEN 0 ELSE (f.num * 100) \div f.den
    IN  IF n < 0 THEN 0 ELSE n

\* n.floor() as usize for n = fitness * 100 scaled by the state's factor
\* (0.6 = 6/10); NaN and negative values cast to 0
PoolShare(rocket) ==
    LET f == rocket.dna.fitness
        n == IF f.den = 0 THEN 0
             ELSE CASE rocket.state = "Dead" -> (f.num * 100 * 6) \div (f.den * 10)
                    [] rocket.state = "Alive" -> (f.num * 100) \div f.den
                    [] rocket.state = "Successful" -> (f.num * 100 * 2) \div f.den
    IN  IF n < 0 THEN 0 ELSE n

RECURSIVE PushShares(_, _, _)
PushShares(rs, ind, pool) ==
    IF ind = ROCKET_COUNT THEN pool
    ELSE PushShares(rs, ind + 1, pool \o [k \in 1 .. PoolShare(rs[ind]) |-> ind])

\* World::gen_mating_pool: the pool afterwards
gen_mating_pool(rs, pool) ==
    LET cleared == SubSeq(pool, 1, 0)
    IN  PushShares(rs, 0, cleared)

\* World::selection: the arrays it can leave in `rockets`, for a non-empty pool.
\* rand_a, rand_b range over the pool's positions, the split point over GeneInds.
selection(rs, pool) ==
    LET parents == {pool[r] : r \in 1 .. Len(pool)}
        children == UNION {mutate(crossover(rs[c[1]].dna, rs[c[2]].dna, c[3])) :
                              c \in parents \X parents \X GeneInds}
    IN  [RocketInds -> {[Rocket_new(StartPos) EXCEPT !.dna = d] : d \in children}]

\* World::new, lines 141-161: the instance before its rockets are randomized
World_blank ==
    [rockets |-> [ind \in RocketInds |-> Rocket_new(StartPos)],
     alive_count |-> ROCKET_COUNT,
     frame_counter |-> 0,
     timer_rect |-> World_timer_rect,
     generation |-> 0,
     mating_pool |-> << >>]

\* World::new: the instances it can return
World_new ==
    {[World_blank EXCEPT !.rockets = rs] :
        rs \in [RocketInds -> {[Rocket_new(StartPos) EXCEPT !.dna = d] : d \in randomize(DNA_new)}]}

\* restart_instance that carries the old alive-count into the new instance
restart_instance_keep_alive(bred) ==
    [World_blank EXCEPT !.rockets = bred, !.generation = generation + 1,
                        !.alive_count = alive_count]

\* restart_instance that carries the old clock and timer into the new instance
restart_instance_keep_clock(bred) ==
    [World_blank EXCEPT !.rockets = bred, !.generation = generation + 1,
                        !.frame_counter = frame_counter, !.timer_rect = timer_rect]

\* restart_instance that carries the pool just built into the new instance
restart_instance_keep_pool(bred) ==
    [World_blank EXCEPT !.rockets = bred, !.generation = generation + 1,
                        !.mating_pool = gen_mating_pool(calc_fitness(rockets), mating_pool)]

\* restart_instance that carries the old timer into the new instance
restart_instance_keep_timer(bred) ==
    [World_blank EXCEPT !.rockets = bred, !.generation = generation + 1,
                        !.timer_rect = timer_rect]

\* World::restart, lines 171-173: the instance that replaces *self
restart_instance(bred) ==
    [World_blank EXCEPT !.rockets = bred, !.generation = generation + 1]

\* restart_breed that falls back to drawing among all rockets when the pool is
\* empty
restart_breed_uniform_fallback(scored, built) ==
    LET pool == IF Len(built) = 0 THEN [k \in 1 .. ROCKET_COUNT |-> k - 1] ELSE built
    IN  /\ panicked' = FALSE
        /\ \E bred \in selection(scored, pool) :
              LET instance == restart_instance(bred)
              IN  /\ rockets' = instance.rockets
                  /\ alive_count' = instance.alive_count
                  /\ frame_counter' = instance.frame_counter
                  /\ timer_rect' = instance.timer_rect
                  /\ generation' = instance.generation
                  /\ mating_pool' = instance.mating_pool

\* World::restart, lines 171-175, on the rockets calc_fitness scored and the pool
\* gen_mating_pool built.  gen_range(0..0) panics on an empty pool: the process
\* aborts with the fitness values and the pool as they are.
restart_breed(scored, pool) ==
    IF Len(pool) = 0
    THEN /\ panicked' = TRUE
         /\ rockets' = scored
         /\ mating_pool' = pool
         /\ UNCHANGED <<alive_count, frame_counter, timer_rect, generation>>
    ELSE /\ panicked' = FALSE
         /\ \E bred \in selection(scored, pool) :
               LET instance == restart_instance(bred)
               IN  /\ rockets' = instance.rockets
                   /\ alive_count' = instance.alive_count
                   /\ frame_counter' = instance.frame_counter
                   /\ timer_rect' = instance.timer_rect
                   /\ generation' = instance.generation
                   /\ mating_pool' = instance.mating_pool

\* World::restart
restart ==
    LET scored == calc_fitness(rockets)
        pool == gen_mating_pool(scored, mating_pool)
    IN  restart_breed(scored, pool)

\* update, lines 283-294: the two index lists
dead_inds(rs) == {ind \in RocketInds : collision_rocket(rs, ind)}
succ_inds(rs) == {ind \in RocketInds \ dead_inds(rs) : collision_target(rs, ind)}

\* update, lines 308-312: one rocket flies one tick
fly(rocket) ==
    LET na == next_angle(rocket.dna)
        turned == [rocket EXCEPT !.angle = @ + na[1], !.dna = na[2]]
        pos_offset == calc_offset(turned)
    IN  [turned EXCEPT !.pos = [x |-> @.x + pos_offset.x, y |-> @.y + pos_offset.y]]

\* step_rocket whose success branch falls through to the flight code
step_rocket_succ_flies(rs, ind) ==
    IF ind \in dead_inds(rs) THEN [rs[ind] EXCEPT !.state = "Dead"]
    ELSE IF ind \in succ_inds(rs) THEN fly([rs[ind] EXCEPT !.state = "Successful"])
    ELSE fly(rs[ind])

\* step_rocket whose failure branch falls through to the flight code
step_rocket_dead_flies(rs, ind) ==
    IF ind \in dead_inds(rs) THEN fly([rs[ind] EXCEPT !.state = "Dead"])
    ELSE IF ind \in succ_inds(rs) THEN [rs[ind] EXCEPT !.state = "Successful"]
    ELSE fly(rs[ind])

\* step_rocket that looks at the target before it looks at the collision
step_rocket_target_first(rs, ind) ==
    IF collision_target(rs, ind) THEN [rs[ind] EXCEPT !.state = "Successful"]
    ELSE IF ind \in dead_inds(rs) THEN [rs[ind] EXCEPT !.state = "Dead"]
    ELSE fly(rs[ind])

\* step_rocket that moves an Alive rocket first and classifies the position it
\* moved to
step_rocket_checks_moved(rs, ind) ==
    LET moved == IF rs[ind].state = "Alive" THEN fly(rs[ind]) ELSE rs[ind]
    IN  IF collision_world(moved.pos) \/ collision_wall(moved.pos)
        THEN [moved EXCEPT !.state = "Dead"]
        ELSE IF Dist(moved.pos) < TARGET_RADIUS * Scale
        THEN [moved EXCEPT !.state = "Successful"]
        ELSE moved

\* update, lines 296-313: the rocket loop
step_rocket(rs, ind) ==
    IF ind \in dead_inds(rs) THEN [rs[ind] EXCEPT !.state = "Dead"]
    ELSE IF ind \in succ_inds(rs) THEN [rs[ind] EXCEPT !.state = "Successful"]
    ELSE fly(rs[ind])

\* newly_dead without the guard on the rocket's state
newly_dead_unguarded(rs) == dead_inds(rs)

\* update, lines 297-300: rockets that are Alive when they are found dead
newly_dead(rs) == {ind \in dead_inds(rs) : rs[ind].state = "Alive"}

\* update, lines 283-315: a tick that is not a rollover
tick ==
    /\ rockets' = [ind \in RocketInds |-> step_rocket(rockets, ind)]
    /\ alive_count' = alive_count - Cardinality(newly_dead(rockets))
    /\ frame_counter' = frame_counter + 1
    /\ timer_rect' = [timer_rect EXCEPT !.width = @ - SCREEN_WIDTH]
    /\ UNCHANGED <<generation, mating_pool, panicked>>

\* update that rolls over one invocation early
update_early == IF frame_counter + 1 >= GENE_LEN THEN restart ELSE tick

\* update that rolls over one invocation late
update_late == IF frame_counter = GENE_LEN + 1 THEN restart ELSE tick

\* update
update == IF frame_counter = GENE_LEN THEN restart ELSE tick

\* no DNA function has been called directly; calls counts the next_angle calls
\* on the first rocket's DNA
NoCall == [fn |-> "none", args |-> << >>, ret |-> 0, calls |-> 0]

FrameStart(p, g, f, a) == [pause |-> p, generation |-> g, frame_counter |-> f, alive_count |-> a]

Init ==
    /\ \E instance \in World_new :
          /\ rockets = instance.rockets
          /\ alive_count = instance.alive_count
          /\ frame_counter = instance.frame_counter
          /\ timer_rect = instance.timer_rect
          /\ generation = instance.generation
          /\ mating_pool = instance.mating_pool
    /\ pause = FALSE
    /\ pc = "input"
    /\ panicked = FALSE
    /\ frame_start = FrameStart(FALSE, 0, 0, ROCKET_COUNT)
    /\ frame_cmd = "None"
    /\ base_gen = 0
    /\ upd_total = 0
    /\ call = NoCall

\* main, line 369: handle_input returned Actions::Pause
MainPause ==
    /\ pc = "input" /\ ~panicked
    /\ pause' = ~pause
    /\ pc' = "update"
    /\ frame_cmd' = "Pause"
    /\ UNCHANGED <<world, panicked, frame_start, base_gen, upd_total, call>>

\* main, lines 370-373: handle_input returned Actions::Reset
MainReset ==
    /\ pc = "input" /\ ~panicked
    /\ generation < MaxGen
    /\ restart
    /\ pc' = "update"
    /\ frame_cmd' = "Reset"
    /\ base_gen' = generation'
    /\ upd_total' = 0
    /\ UNCHANGED <<pause, frame_start, call>>

\* main, line 374: handle_input returned Actions::Nothing
MainNothing ==
    /\ pc = "input" /\ ~panicked
    /\ pc' = "update"
    /\ frame_cmd' = "Nothing"
    /\ UNCHANGED <<world, pause, panicked, frame_start, base_gen, upd_total, call>>

\* MainUpdate without the pause gate
MainUpdate_ungated ==
    /\ pc = "update" /\ ~panicked
    /\ frame_counter = GENE_LEN => generation < MaxGen
    /\ update
    /\ pc' = "render"
    /\ upd_total' = upd_total + 1
    /\ UNCHANGED <<pause, frame_start, frame_cmd, base_gen, call>>

\* main, lines 378-380: not paused, update is called
MainUpdate ==
    /\ pc = "update" /\ ~panicked
    /\ ~pause
    /\ frame_counter = GENE_LEN => generation < MaxGen
    /\ update
    /\ pc' = "render"
    /\ upd_total' = upd_total + 1
    /\ UNCHANGED <<pause, frame_start, frame_cmd, base_gen, call>>

\* main, line 378: paused, update is not called
UpdateSkipped ==
    /\ pc = "update" /\ ~panicked
    /\ pause
    /\ pc' = "render"
    /\ UNCHANGED <<world, pause, panicked, frame_start, frame_cmd, base_gen, upd_total, call>>

\* main, lines 383-384: render reads the world; the next frame begins
Render ==
    /\ pc = "render" /\ ~panicked
    /\ pc' = "input"
    /\ frame_start' = FrameStart(pause, generation, frame_counter, alive_count)
    /\ frame_cmd' = "None"
    /\ UNCHANGED <<world, pause, panicked, base_gen, upd_total, call>>

Next ==
    \/ MainPause
    \/ MainReset
    \/ MainNothing
    \/ MainUpdate
    \/ UpdateSkipped
    \/ Render

Spec == Init /\ [][Next]_vars

\* ======================================================================
\* The World's methods on World values of every shape
\* ======================================================================

\* enum RocketState
RocketStates == {"Alive", "Dead", "Successful"}

\* positions a rocket is placed at: on every edge of the world and just beyond
\* it, two corners, on every edge of every wall and just inside it, the
\* target's centre and the start position
Probes ==
    LET W == SCREEN_WIDTH * Scale
        H == SCREEN_HEIGHT * Scale
    IN  {[x |-> 0, y |-> StartPos.y], [x |-> W, y |-> StartPos.y],
         [x |-> StartPos.x, y |-> 0], [x |-> StartPos.x, y |-> H],
         [x |-> 0, y |-> 0], [x |-> W, y |-> H],
         [x |-> -1, y |-> StartPos.y], [x |-> W + 1, y |-> StartPos.y],
         [x |-> StartPos.x, y |-> -1], [x |-> StartPos.x, y |-> H + 1],
         target, StartPos}
        \cup UNION {{[x |-> walls[w].x, y |-> walls[w].y + 1],
                     [x |-> walls[w].x + walls[w].width, y |-> walls[w].y + 1],
                     [x |-> walls[w].x + 1, y |-> walls[w].y],
                     [x |-> walls[w].x + 1, y |-> walls[w].y + walls[w].height],
                     [x |-> walls[w].x + 1, y |-> walls[w].y + 1]} : w \in 1 .. WALL_COUNT}

\* struct World with the given rockets and clock, the alive-count and the timer
\* as update keeps them
World_at(rs, clock) ==
    [World_blank EXCEPT
        !.rockets = rs,
        !.alive_count = ROCKET_COUNT - Cardinality({ind \in RocketInds : rs[ind].state = "Dead"}),
        !.frame_counter = clock,
        !.timer_rect = [@ EXCEPT !.width = TimerFull - clock * SCREEN_WIDTH]]

\* positions the rockets after the first are placed at
ProbesFew == {target, StartPos, [x |-> walls[1].x + 1, y |-> walls[1].y + 1]}

\* World values with rocket 0 at a probe position and the others at one of
\* ProbesFew, each in any state, at the start of a generation or with the clock
\* at the budget
World_probes ==
    {World_at(rs, clock) :
        rs \in {r \in [RocketInds -> {[Rocket_new(pos) EXCEPT !.state = st] :
                                         pos \in Probes, st \in RocketStates}] :
                   \A ind \in RocketInds \ {0} : r[ind].pos \in ProbesFew},
        clock \in {0, GENE_LEN}}

InitWorld ==
    /\ \E instance \in World_probes :
          /\ rockets = instance.rockets
          /\ alive_count = instance.alive_count
          /\ frame_counter = instance.frame_counter
          /\ timer_rect = instance.timer_rect
          /\ generation = instance.generation
          /\ mating_pool = instance.mating_pool
    /\ pause = FALSE
    /\ pc = "world"
    /\ panicked = FALSE
    /\ frame_start = FrameStart(FALSE, 0, 0, ROCKET_COUNT)
    /\ frame_cmd = "None"
    /\ base_gen = 0
    /\ upd_total = 0
    /\ call = NoCall

\* update(&mut world)
World_update ==
    /\ pc = "world" /\ ~panicked
    /\ frame_counter = GENE_LEN => generation < MaxGen
    /\ update
    /\ UNCHANGED <<pause, pc, frame_start, frame_cmd, base_gen, upd_total, call>>

\* restart, line 169: self.calc_fitness()
World_calc_fitness ==
    /\ pc = "world" /\ ~panicked
    /\ rockets' = calc_fitness(rockets)
    /\ pc' = "scored"
    /\ UNCHANGED <<alive_count, frame_counter, timer_rect, generation, mating_pool,
                   pause, panicked, frame_start, frame_cmd, base_gen, upd_total, call>>

\* restart, line 170: self.gen_mating_pool()
World_gen_mating_pool ==
    /\ pc = "scored"
    /\ mating_pool' = gen_mating_pool(rockets, mating_pool)
    /\ pc' = "pooled"
    /\ UNCHANGED <<rockets, alive_count, frame_counter, timer_rect, generation,
                   pause, panicked, frame_start, frame_cmd, base_gen, upd_total, call>>

\* restart, lines 171-175: selection fills a new instance, which replaces *self
World_selection ==
    /\ pc = "pooled"
    /\ generation < MaxGen
    /\ restart_breed(rockets, mating_pool)
    /\ pc' = "world"
    /\ UNCHANGED <<pause, frame_start, frame_cmd, base_gen, upd_total, call>>

NextWorld ==
    \/ World_update
    \/ World_calc_fitness
    \/ World_gen_mating_pool
    \/ World_selection

SpecWorld == InitWorld /\ [][NextWorld]_vars

\* ======================================================================
\* The DNA's methods called directly
\* ======================================================================

InitDNA ==
    /\ \E instance \in World_new :
          /\ rockets = instance.rockets
          /\ alive_count = instance.alive_count
          /\ frame_counter = instance.frame_counter
          /\ timer_rect = instance.timer_rect
          /\ generation = instance.generation
          /\ mating_pool = instance.mating_pool
    /\ pause = FALSE
    /\ pc = "dna"
    /\ panicked = FALSE
    /\ frame_start = FrameStart(FALSE, 0, 0, ROCKET_COUNT)
    /\ frame_cmd = "None"
    /\ base_gen = 0
    /\ upd_total = 0
    /\ call = NoCall

\* rockets[0].dna.next_angle(), up to ExtraCalls calls beyond the genome's length
DNA_next_angle ==
    /\ pc = "dna"
    /\ call.calls < GENE_LEN + ExtraCalls
    /\ LET na == next_angle(rockets[0].dna)
       IN  /\ rockets' = [rockets EXCEPT ![0].dna = na[2]]
           /\ call' = [fn |-> "next_angle", args |-> <<0>>, ret |-> na[1],
                       calls |-> call.calls + 1]
    /\ UNCHANGED <<alive_count, frame_counter, timer_rect, generation, mating_pool,
                   pause, pc, panicked, frame_start, frame_cmd, base_gen, upd_total>>

\* DNA::crossover(&rockets[parent_a_ind].dna, &rockets[parent_b_ind].dna)
DNA_crossover ==
    /\ pc = "dna"
    /\ \E parent_a_ind, parent_b_ind \in RocketInds, rand_split_point \in GeneInds :
          call' = [fn |-> "crossover", args |-> <<parent_a_ind, parent_b_ind>>,
                   ret |-> crossover(rockets[parent_a_ind].dna, rockets[parent_b_ind].dna,
                                     rand_split_point),
                   calls |-> call.calls]
    /\ UNCHANGED <<world, pause, pc, panicked, frame_start, frame_cmd, base_gen, upd_total>>

\* self.calc_fitness(): the rockets' DNAs get their fitness
DNA_calc_fitness ==
    /\ pc = "dna"
    /\ rockets' = calc_fitness(rockets)
    /\ UNCHANGED <<alive_count, frame_counter, timer_rect, generation, mating_pool,
                   pause, pc, panicked, frame_start, frame_cmd, base_gen, upd_total, call>>

NextDNA ==
    \/ DNA_next_angle
    \/ DNA_crossover
    \/ DNA_calc_fitness

SpecDNA == InitDNA /\ [][NextDNA]_vars

\* ======================================================================
\* Steps and states the properties speak about
\* ======================================================================

\* a step in which update runs its tick branch
TickStep == pc = "update" /\ ~pause /\ frame_counter # GENE_LEN /\ pc' = "render"

\* a step in which update runs restart
RolloverStep == pc = "update" /\ ~pause /\ frame_counter = GENE_LEN /\ pc' = "render"

\* a step in which main consumes Actions::Reset
ResetStep == pc = "input" /\ frame_cmd' = "Reset"

\* rocket is what selection puts into a slot, whatever its genes
FreshRocket(rocket) ==
    /\ rocket.state = "Alive"
    /\ rocket.pos = StartPos
    /\ rocket.angle = -90
    /\ rocket.dna.curr_gene = 0
    /\ rocket.dna.fitness = [num |-> 0, den |-> 1]

Collides(pos) == collision_world(pos) \/ collision_wall(pos)

WithinTarget(pos) ==
    (target.x - pos.x) * (target.x - pos.x) + (target.y - pos.y) * (target.y - pos.y)
        < (TARGET_RADIUS * Scale) * (TARGET_RADIUS * Scale)

\* the rocket reached its terminal state in an earlier tick and was checked again since
CheckedAgain(rocket) == frame_counter >= rocket.dna.curr_gene + 2

DeadCount == Cardinality({ind \in RocketInds : rockets[ind].state = "Dead"})

\* ======================================================================
\* C1
\* ======================================================================

\* C1 as claimed: N update invocations after a fresh generation g (no pause in
\* between counts, no manual reset) the rollover has occurred: generation g+1,
\* clock 0, every rocket fresh.
C1_RolloverOnNthUpdate ==
    upd_total = GENE_LEN =>
        /\ generation = base_gen + 1
        /\ frame_counter = 0
        /\ \A ind \in RocketInds : FreshRocket(rockets[ind])

\* C1 as amended: the first N update invocations of a generation are ticks that
\* take the clock to N without a rollover, and the (N+1)-th invocation is the
\* rollover (generation g+1, clock 0, every rocket fresh at the start position);
\* in each of the N ticks a rocket that is Alive and whose position neither
\* collides nor lies within the target stays Alive.
C1_RolloverOnUpdateAfterBudget ==
    /\ [](/\ generation = base_gen + (upd_total \div (GENE_LEN + 1))
          /\ frame_counter = upd_total % (GENE_LEN + 1)
          /\ upd_total = GENE_LEN => generation = base_gen /\ frame_counter = GENE_LEN
          /\ (upd_total = GENE_LEN + 1 /\ pc = "render") =>
                /\ generation = base_gen + 1
                /\ frame_counter = 0
                /\ \A ind \in RocketInds : FreshRocket(rockets[ind]))
    /\ [][TickStep =>
            \A ind \in RocketInds :
                (/\ rockets[ind].state = "Alive"
                 /\ ~Collides(rockets[ind].pos)
                 /\ ~WithinTarget(rockets[ind].pos)) => rockets'[ind].state = "Alive"]_vars

\* the (N+1)-th update of generation 0 has just performed the rollover
C1_Witness ==
    /\ upd_total = GENE_LEN + 1
    /\ pc = "render"
    /\ base_gen = 0
    /\ generation = 1

\* ======================================================================
\* C2
\* ======================================================================

\* C2: every completed restart, by clock exhaustion or by manual reset, leaves
\* generation + 1, clock 0, alive-count ROCKET_COUNT and ROCKET_COUNT rockets
\* that are Alive at the start position with heading -90, cursor 0, fitness 0.
C2_RestartPostcondition ==
    [][((ResetStep \/ RolloverStep) /\ ~panicked') =>
            /\ generation' = generation + 1
            /\ frame_counter' = 0
            /\ alive_count' = ROCKET_COUNT
            /\ DOMAIN rockets' = RocketInds
            /\ Cardinality(DOMAIN rockets') = ROCKET_COUNT
            /\ \A ind \in RocketInds : FreshRocket(rockets'[ind])]_vars

\* a manual reset has just completed in a frame that began mid-generation with
\* a rocket already Dead
C2_Witness ==
    /\ pc = "update"
    /\ frame_cmd = "Reset"
    /\ frame_start.alive_count < ROCKET_COUNT
    /\ frame_start.frame_counter \in 1 .. (GENE_LEN - 1)
    /\ generation = frame_start.generation + 1
    /\ alive_count = ROCKET_COUNT

\* ======================================================================
\* C3
\* ======================================================================

\* C3: a tick never takes a rocket out of Dead or out of Successful, and a
\* rocket that is not Alive is Alive again only after a step that increments
\* the generation.
C3_TerminalSticky ==
    [][/\ TickStep =>
            \A ind \in RocketInds :
                /\ rockets[ind].state = "Dead" => rockets'[ind].state = "Dead"
                /\ rockets[ind].state = "Successful" => rockets'[ind].state = "Successful"
       /\ \A ind \in RocketInds :
            (rockets[ind].state # "Alive" /\ rockets'[ind].state = "Alive")
                => generation' = generation + 1]_vars

\* one rocket Dead and one Successful, both checked again by a later tick
C3_Witness ==
    /\ \E ind \in RocketInds : rockets[ind].state = "Dead" /\ CheckedAgain(rockets[ind])
    /\ \E ind \in RocketInds : rockets[ind].state = "Successful" /\ CheckedAgain(rockets[ind])

\* ======================================================================
\* C4
\* ======================================================================

\* C4: a tick leaves position, heading and cursor of a Dead or Successful rocket
\* unchanged; within a generation position or heading change only in a tick,
\* only for an Alive rocket, and only by heading += genes[cursor],
\* position += ROCKET_SPEED * (cos, sin) of the new heading.
C4_OnlyAliveFlies ==
    [][/\ TickStep =>
            \A ind \in RocketInds :
                rockets[ind].state \in {"Dead", "Successful"} =>
                    /\ rockets'[ind].pos = rockets[ind].pos
                    /\ rockets'[ind].angle = rockets[ind].angle
                    /\ rockets'[ind].dna.curr_gene = rockets[ind].dna.curr_gene
       /\ generation' = generation =>
            \A ind \in RocketInds :
                (rockets'[ind].pos # rockets[ind].pos \/ rockets'[ind].angle # rockets[ind].angle) =>
                    /\ TickStep
                    /\ rockets[ind].state = "Alive"
                    /\ rockets[ind].dna.curr_gene < GENE_LEN
                    /\ rockets'[ind].angle =
                          rockets[ind].angle + rockets[ind].dna.genes[rockets[ind].dna.curr_gene]
                    /\ rockets'[ind].pos.x =
                          rockets[ind].pos.x + ROCKET_SPEED * Cos1000(rockets'[ind].angle)
                    /\ rockets'[ind].pos.y =
                          rockets[ind].pos.y + ROCKET_SPEED * Sin1000(rockets'[ind].angle)]_vars

\* a Successful rocket held in place by a later tick in which another rocket flew
C4_Witness ==
    \E i, j \in RocketInds :
        /\ rockets[i].state = "Successful"
        /\ CheckedAgain(rockets[i])
        /\ rockets[j].state = "Alive"
        /\ rockets[j].dna.curr_gene = frame_counter
        /\ rockets[j].pos # StartPos

\* ======================================================================
\* C5
\* ======================================================================

\* C5: in a tick an Alive rocket whose position both collides and lies within
\* the target becomes Dead, and a rocket becomes Successful in a tick only if
\* its position lies within the target and does not collide.
C5_FailureBeforeSuccess ==
    [][TickStep =>
          \A ind \in RocketInds :
              /\ (/\ rockets[ind].state = "Alive"
                  /\ Collides(rockets[ind].pos)
                  /\ WithinTarget(rockets[ind].pos)) => rockets'[ind].state = "Dead"
              /\ (rockets[ind].state # "Successful" /\ rockets'[ind].state = "Successful") =>
                    (WithinTarget(rockets[ind].pos) /\ ~Collides(rockets[ind].pos))]_vars

\* a rocket was recorded Dead at a position that collides and lies within the target
C5_Witness ==
    \E ind \in RocketInds :
        /\ rockets[ind].state = "Dead"
        /\ Collides(rockets[ind].pos)
        /\ WithinTarget(rockets[ind].pos)

\* ======================================================================
\* C6
\* ======================================================================

\* C6: alive_count = ROCKET_COUNT - (number of Dead rockets) in every state, so
\* it lies in 0 .. ROCKET_COUNT, is not decremented a second time for a Dead
\* rocket that is checked again, and is not decremented for a Successful rocket.
C6_AliveCount ==
    /\ alive_count = ROCKET_COUNT - DeadCount
    /\ alive_count \in 0 .. ROCKET_COUNT

\* a Dead rocket has been checked again, beside a Successful rocket
C6_Witness ==
    /\ alive_count = ROCKET_COUNT - 1
    /\ \E ind \in RocketInds : rockets[ind].state = "Dead" /\ CheckedAgain(rockets[ind])
    /\ \E ind \in RocketInds : rockets[ind].state = "Successful"

\* ======================================================================
\* C7
\* ======================================================================

\* C7 as claimed, for the clock, the generation counter and the alive-count:
\* at the end of a frame that had the pause flag set from its start to its end
\* they are what they were at the frame's start, whatever command the frame
\* consumed.
C7_PausedFrameFrozen ==
    (pc = "render" /\ frame_start.pause /\ pause) =>
        /\ generation = frame_start.generation
        /\ frame_counter = frame_start.frame_counter
        /\ alive_count = frame_start.alive_count

\* C7 as amended: in a frame that begins with the pause flag set and in which
\* handle_input returns Nothing, no step changes the rockets, the clock, the
\* timer, the generation counter, the alive-count or the mating pool, so all of
\* them are at the frame's end what they were at its start.  (A Reset consumed
\* while paused still runs restart, and a Pause consumed while paused clears
\* the flag before the update phase of the same frame.)
C7_PausedIdleFrameFrozen ==
    /\ []((pc = "render" /\ frame_start.pause /\ frame_cmd = "Nothing") =>
            /\ pause
            /\ generation = frame_start.generation
            /\ frame_counter = frame_start.frame_counter
            /\ alive_count = frame_start.alive_count)
    /\ [][(/\ frame_start.pause
           /\ \/ pc = "input" /\ frame_cmd' = "Nothing"
              \/ pc = "update" /\ frame_cmd = "Nothing"
              \/ pc = "render" /\ frame_cmd = "Nothing") => UNCHANGED world]_vars

\* the end of a paused frame without a command, mid-generation, rockets in flight
C7_Witness ==
    /\ pc = "render"
    /\ frame_start.pause
    /\ frame_cmd = "Nothing"
    /\ frame_counter \in 1 .. (GENE_LEN - 1)
    /\ \E ind \in RocketInds : rockets[ind].state = "Alive"

\* ======================================================================
\* C8
\* ======================================================================

\* C8: in a frame that consumes Reset, at whatever clock value it starts, restart
\* runs at once: after the input phase the generation counter is one more than
\* at the frame's start, the clock is 0 and every rocket is fresh; at the frame's
\* end the generation counter is still exactly one more than at its start and
\* the clock is 0 if paused and 1 (the frame's own tick) otherwise.
C8_ResetImmediate ==
    frame_cmd = "Reset" =>
        /\ generation = frame_start.generation + 1
        /\ base_gen = generation
        /\ pc = "update" =>
              /\ frame_counter = 0
              /\ alive_count = ROCKET_COUNT
              /\ \A ind \in RocketInds : FreshRocket(rockets[ind])
        /\ pc = "render" => frame_counter = (IF pause THEN 0 ELSE 1)

\* the end of an unpaused frame that consumed Reset with the clock at the budget
C8_Witness ==
    /\ pc = "render"
    /\ frame_cmd = "Reset"
    /\ ~pause
    /\ frame_start.frame_counter = GENE_LEN
    /\ generation = frame_start.generation + 1

\* ======================================================================
\* C9
\* ======================================================================

\* C9: the clock lies in 0 .. GENE_LEN in every state; a tick increases it by
\* exactly 1, every restart sets it to 0, and no other step changes it.
C9_ClockRange ==
    /\ [](frame_counter \in 0 .. GENE_LEN)
    /\ [][/\ TickStep => frame_counter' = frame_counter + 1
          /\ (RolloverStep \/ ResetStep) => frame_counter' = 0
          /\ ~(TickStep \/ RolloverStep \/ ResetStep) => frame_counter' = frame_counter]_vars

\* the clock stands at the budget in a paused frame of a generation begun by a reset
C9_Witness ==
    /\ frame_counter = GENE_LEN
    /\ pause
    /\ base_gen > 0
    /\ pc = "update"

\* ======================================================================
\* C10
\* ======================================================================

\* C10: the mating pool is empty in every state between the handlers (initially,
\* after restart returns, between ticks), and the pool gen_mating_pool builds
\* from the current rockets does not depend on what the pool held before.
C10_PoolEmptyOutsideRestart ==
    /\ mating_pool = << >>
    /\ gen_mating_pool(calc_fitness(rockets), <<0, 0, 0>>)
          = gen_mating_pool(calc_fitness(rockets), << >>)

\* restart has just returned from building a non-empty pool out of rockets of
\* which one was Dead
C10_Witness ==
    /\ pc = "update"
    /\ frame_cmd = "Reset"
    /\ frame_start.alive_count < ROCKET_COUNT
    /\ mating_pool = << >>
    /\ Len(gen_mating_pool(calc_fitness(rockets), << >>)) > 0

\* ======================================================================
\* C11
\* ======================================================================

\* a step of SpecWorld in which update runs its tick branch
WorldTickStep == pc = "world" /\ frame_counter # GENE_LEN /\ pc' = "world"

\* a step of SpecWorld in which update runs restart
WorldRestartStep == pc = "world" /\ frame_counter = GENE_LEN /\ pc' = "world"

\* a step of SpecWorld in which restart, called at any clock, goes on to
\* selection with the pool gen_mating_pool left
WorldSelectionStep == pc = "pooled" /\ pc' = "world"

\* nothing of the population or the counters changes in the step
PopulationKept ==
    /\ generation' = generation
    /\ frame_counter' = frame_counter
    /\ alive_count' = alive_count
    /\ \A ind \in RocketInds :
          /\ rockets'[ind].pos = rockets[ind].pos
          /\ rockets'[ind].state = rockets[ind].state
          /\ rockets'[ind].angle = rockets[ind].angle
          /\ rockets'[ind].dna.genes = rockets[ind].dna.genes
          /\ rockets'[ind].dna.curr_gene = rockets[ind].dna.curr_gene

\* the pool gen_mating_pool builds from the current rockets is empty
PoolWouldBeEmpty == Len(gen_mating_pool(calc_fitness(rockets), mating_pool)) = 0

\* C11: a restart entered in a state from which gen_mating_pool builds an empty
\* pool aborts the program in selection: the generation counter, the clock and
\* every rocket's position, state and genes stay as they were (no new
\* population, no fallback parents), the pool stays empty, and no step follows
\* the abort.
C11_EmptyPoolAborts ==
    /\ [][(WorldSelectionStep /\ Len(mating_pool) = 0) =>
            (panicked' /\ PopulationKept /\ mating_pool' = << >>)]_vars
    /\ [][(WorldRestartStep /\ PoolWouldBeEmpty) =>
            (panicked' /\ PopulationKept /\ mating_pool' = << >>)]_vars
    /\ [][~panicked]_vars

\* the program aborted in the restart of a population that sits on the target's
\* centre, one rocket Successful and one Dead
C11_Witness ==
    /\ panicked
    /\ generation = 0
    /\ frame_counter = GENE_LEN
    /\ \A ind \in RocketInds : rockets[ind].pos = target
    /\ \E ind \in RocketInds : rockets[ind].state = "Successful"
    /\ \E ind \in RocketInds : rockets[ind].state = "Dead"

\* ======================================================================
\* C12
\* ======================================================================

\* how often ind occurs in the mating pool
PoolCount(ind) == Cardinality({r \in 1 .. Len(mating_pool) : mating_pool[r] = ind})

\* floor(weighted fitness * 100) of rocket ind: its fitness num/den times
\* 6/10 (Dead), 1 (Alive) or 2 (Successful), times 100, rounded down; 0 for NaN
WeightFloor(ind) ==
    LET f == rockets[ind].dna.fitness
        factor == CASE rockets[ind].state = "Dead" -> [num |-> 6, den |-> 10]
                    [] rockets[ind].state = "Alive" -> [num |-> 1, den |-> 1]
                    [] rockets[ind].state = "Successful" -> [num |-> 2, den |-> 1]
    IN  IF f.den = 0 THEN 0 ELSE (f.num * factor.num * 100) \div (f.den * factor.den)

RECURSIVE WeightFloorSum(_)
WeightFloorSum(ind) ==
    IF ind = ROCKET_COUNT THEN 0 ELSE WeightFloor(ind) + WeightFloorSum(ind + 1)

\* C12: after gen_mating_pool the pool's length is the sum over the rockets of
\* floor(weighted fitness * 100), every entry is an index in 0 .. ROCKET_COUNT-1,
\* rocket ind occurs floor(weighted fitness * 100) times, and a rocket whose
\* count is 0 is at no position selection can draw.
C12_PoolShares ==
    pc = "pooled" =>
        /\ Len(mating_pool) = WeightFloorSum(0)
        /\ \A r \in 1 .. Len(mating_pool) : mating_pool[r] \in 0 .. (ROCKET_COUNT - 1)
        /\ \A ind \in RocketInds : PoolCount(ind) = WeightFloor(ind)
        /\ \A ind \in RocketInds :
              WeightFloor(ind) = 0 => \A r \in 1 .. Len(mating_pool) : mating_pool[r] # ind

\* a pool built of the copies of a Dead rocket only: the other rocket's share is 0
C12_Witness ==
    /\ pc = "pooled"
    /\ \E ind, other \in RocketInds :
          /\ PoolCount(ind) = 0
          /\ rockets[other].state = "Dead"
          /\ PoolCount(other) > 0
          /\ PoolCount(other) = Len(mating_pool)

\* ======================================================================
\* C13
\* ======================================================================

\* a step of SpecDNA that calls next_angle on the first rocket's DNA
NextAngleStep == pc = "dna" /\ call'.fn = "next_angle" /\ call'.calls = call.calls + 1

\* C13: however often next_angle is called on a genome, the cursor stays in
\* 0 .. GENE_LEN; the j-th call with j <= GENE_LEN returns genes[j-1] and moves
\* the cursor from j-1 to j; every later call returns genes[GENE_LEN-1], what the
\* GENE_LEN-th call returned, and leaves the cursor at GENE_LEN; no call changes
\* a gene.
C13_SaturatingRead ==
    /\ [](/\ \A ind \in RocketInds : rockets[ind].dna.curr_gene \in 0 .. GENE_LEN
          /\ rockets[0].dna.curr_gene = (IF call.calls <= GENE_LEN THEN call.calls ELSE GENE_LEN)
          /\ call.fn = "next_angle" =>
                call.ret = rockets[0].dna.genes[(IF call.calls <= GENE_LEN
                                                 THEN call.calls ELSE GENE_LEN) - 1])
    /\ [][NextAngleStep =>
            /\ rockets'[0].dna.genes = rockets[0].dna.genes
            /\ call.calls < GENE_LEN =>
                  /\ call'.ret = rockets[0].dna.genes[call.calls]
                  /\ rockets'[0].dna.curr_gene = rockets[0].dna.curr_gene + 1
            /\ call.calls >= GENE_LEN =>
                  /\ call'.ret = rockets[0].dna.genes[GENE_LEN - 1]
                  /\ rockets'[0].dna.curr_gene = rockets[0].dna.curr_gene
                  /\ rockets'[0].dna.curr_gene = GENE_LEN]_vars

\* the second call beyond the genome's length has returned the last gene, which
\* differs from the first one
C13_Witness ==
    /\ call.fn = "next_angle"
    /\ call.calls >= GENE_LEN + 2
    /\ rockets[0].dna.curr_gene = GENE_LEN
    /\ call.ret = rockets[0].dna.genes[GENE_LEN - 1]
    /\ call.ret # rockets[0].dna.genes[0]

\* ======================================================================
\* C14
\* ======================================================================

\* a step of SpecDNA that calls crossover
CrossoverStep == pc = "dna" /\ call'.fn = "crossover" /\ call' # call

\* C14: the child crossover returns for parents A and B has, for one split point
\* k in 0 .. GENE_LEN-1, A's genes at every index below k and B's genes at every
\* index from k on; its cursor is 0 and its fitness is 0 whatever the parents'
\* cursor and fitness are; the call changes neither parent.
C14_SinglePointCrossover ==
    /\ [](call.fn = "crossover" =>
            LET parent_a == rockets[call.args[1]].dna
                parent_b == rockets[call.args[2]].dna
                child == call.ret
            IN  /\ DOMAIN child.genes = GeneInds
                /\ \E k \in 0 .. (GENE_LEN - 1) :
                      /\ \A i \in GeneInds : i < k => child.genes[i] = parent_a.genes[i]
                      /\ \A i \in GeneInds : i >= k => child.genes[i] = parent_b.genes[i]
                /\ child.curr_gene = 0
                /\ child.fitness = [num |-> 0, den |-> 1])
    /\ [][CrossoverStep => rockets' = rockets]_vars

\* a child that mixes the genes of two different parents, of which the first
\* has a moved cursor and both have a fitness other than 0
C14_Witness ==
    /\ call.fn = "crossover"
    /\ call.args = <<0, 1>>
    /\ rockets[0].dna.curr_gene > 0
    /\ rockets[0].dna.fitness.num > 0
    /\ rockets[1].dna.fitness.num > 0
    /\ call.ret.genes # rockets[0].dna.genes
    /\ call.ret.genes # rockets[1].dna.genes

\* ======================================================================
\* C15
\* ======================================================================

\* every gene of the rocket is a zero turn: it flies straight up from the start
ZeroTurn(rocket) == \A i \in GeneInds : rocket.dna.genes[i] = 0

\* C15 as claimed: a rocket flying with zero turn is Dead at the end of the tick
\* in which its position first collides.
C15_FailedOnCollidingTick ==
    [][TickStep =>
          \A ind \in RocketInds :
              (/\ ZeroTurn(rockets[ind])
               /\ ~Collides(rockets[ind].pos)
               /\ Collides(rockets'[ind].pos)) => rockets'[ind].state = "Dead"]_vars

\* C15 as amended: a rocket (one flying with zero turn among them) becomes Dead
\* in the tick that starts with its position colliding, which is the tick after
\* the one that moved it there, and that tick does not move it; a tick that
\* starts with an Alive rocket at a position that does not collide never makes
\* it Dead, even when the tick's own move brings it into collision, and leaves
\* it Alive unless the position lies within the target; an Alive rocket whose
\* position collides was moved there by the latest tick.
C15_FailedOnTickAfterCollidingMove ==
    /\ [][TickStep =>
            \A ind \in RocketInds :
                /\ (rockets[ind].state = "Alive" /\ Collides(rockets[ind].pos)) =>
                      /\ rockets'[ind].state = "Dead"
                      /\ rockets'[ind].pos = rockets[ind].pos
                /\ (rockets[ind].state = "Alive" /\ ~Collides(rockets[ind].pos)) =>
                      /\ rockets'[ind].state # "Dead"
                      /\ ~WithinTarget(rockets[ind].pos) => rockets'[ind].state = "Alive"
                /\ (rockets[ind].state # "Dead" /\ rockets'[ind].state = "Dead") =>
                      Collides(rockets[ind].pos)]_vars
    /\ [](\A ind \in RocketInds :
            (rockets[ind].state = "Alive" /\ Collides(rockets[ind].pos)) =>
                /\ frame_counter >= 1
                /\ rockets[ind].dna.curr_gene = frame_counter)

\* a rocket that flew with zero turn into a wall has been recorded Dead by the
\* tick after the one that moved it there
C15_Witness ==
    \E ind \in RocketInds :
        /\ ZeroTurn(rockets[ind])
        /\ rockets[ind].state = "Dead"
        /\ collision_wall(rockets[ind].pos)
        /\ rockets[ind].dna.curr_gene >= 2
        /\ frame_counter = rockets[ind].dna.curr_gene + 1

\* ======================================================================
\* C16
\* ======================================================================

\* d is the distance from pos to the target, rounded down to 1/Scale
IsDistance(pos, d) ==
    LET sq == (target.x - pos.x) * (target.x - pos.x) + (target.y - pos.y) * (target.y - pos.y)
    IN  d >= 0 /\ d * d <= sq /\ sq < (d + 1) * (d + 1)

RECURSIVE StoredDistSum(_)
StoredDistSum(ind) ==
    IF ind = ROCKET_COUNT THEN 0 ELSE rockets[ind].dist_from_target + StoredDistSum(ind + 1)

\* calc_fitness has run on a population whose distance sum is positive
Scored == pc = "scored" /\ StoredDistSum(0) > 0

\* fitness of rocket i >= fitness of rocket j, as rationals with positive den
FitnessGeq(i, j) ==
    rockets[i].dna.fitness.num * rockets[j].dna.fitness.den
        >= rockets[j].dna.fitness.num * rockets[i].dna.fitness.den

\* every rocket's stored distance is its distance to the target and its fitness
\* is 1 - distance / sum; a smaller distance has the greater or equal fitness
FitnessFormula ==
    /\ \A ind \in RocketInds :
          /\ IsDistance(rockets[ind].pos, rockets[ind].dist_from_target)
          /\ rockets[ind].dna.fitness.den > 0
          /\ rockets[ind].dna.fitness.num * StoredDistSum(0)
                = (StoredDistSum(0) - rockets[ind].dist_from_target) * rockets[ind].dna.fitness.den
    /\ \A i, j \in RocketInds :
          rockets[i].dist_from_target <= rockets[j].dist_from_target => FitnessGeq(i, j)

FailsAt(p) ==
    \/ p.x < 0
    \/ p.x > SCREEN_WIDTH * Scale
    \/ p.y < 0
    \/ p.y > SCREEN_HEIGHT * Scale
    \/ \E w \in 1 .. WALL_COUNT :
          /\ walls[w].x < p.x /\ p.x < walls[w].x + walls[w].width
          /\ walls[w].y < p.y /\ p.y < walls[w].y + walls[w].height

\* p is within the world and on one of its four edges
OnWorldEdge(p) ==
    /\ 0 <= p.x /\ p.x <= SCREEN_WIDTH * Scale
    /\ 0 <= p.y /\ p.y <= SCREEN_HEIGHT * Scale
    /\ p.x = 0 \/ p.x = SCREEN_WIDTH * Scale \/ p.y = 0 \/ p.y = SCREEN_HEIGHT * Scale

\* p is on the border of a wall's rectangle
OnWallEdge(p) ==
    \E w \in 1 .. WALL_COUNT :
        /\ walls[w].x <= p.x /\ p.x <= walls[w].x + walls[w].width
        /\ walls[w].y <= p.y /\ p.y <= walls[w].y + walls[w].height
        /\ \/ p.x = walls[w].x \/ p.x = walls[w].x + walls[w].width
           \/ p.y = walls[w].y \/ p.y = walls[w].y + walls[w].height

\* C17: a tick makes an Alive rocket Dead iff its position is beyond an edge of
\* the world (x < 0, x > W, y < 0, y > H) or strictly inside a wall; a rocket
\* exactly on an edge of the world or of a wall is not made Dead.
C17_StrictEdges ==
    [][WorldTickStep =>
          \A ind \in RocketInds :
              rockets[ind].state = "Alive" =>
                  /\ rockets'[ind].state = "Dead" <=> FailsAt(rockets[ind].pos)
                  /\ (OnWorldEdge(rockets[ind].pos) \/ OnWallEdge(rockets[ind].pos)) =>
                        rockets'[ind].state # "Dead"]_vars

\* a rocket placed on the world's left edge has flown on in the first tick
C17_Witness ==
    /\ pc = "world"
    /\ frame_counter = 1
    /\ \E ind \in RocketInds :
          /\ rockets[ind].state = "Alive"
          /\ rockets[ind].dna.curr_gene = 1
          /\ rockets[ind].pos.x = 0
          /\ rockets[ind].pos.y = StartPos.y - ROCKET_SPEED * Scale

\* ======================================================================
\* C18
\* ======================================================================

\* C18: in every state timer_rect.width = SCREEN_WIDTH * (1 - frame_counter /
\* GENE_LEN), here in units of 1/GENE_LEN: it is full at clock 0, never negative
\* and 0 exactly when the clock is at the budget; a tick shrinks it by
\* SCREEN_WIDTH / GENE_LEN, and every restart, a manual reset included, returns
\* it to the full width.
C18_TimerTracksClock ==
    /\ [](/\ timer_rect.width = SCREEN_WIDTH * (GENE_LEN - frame_counter)
          /\ timer_rect.width >= 0
          /\ frame_counter = 0 => timer_rect.width = SCREEN_WIDTH * GENE_LEN
          /\ timer_rect.width = 0 <=> frame_counter = GENE_LEN)
    /\ [][/\ TickStep => timer_rect'.width = timer_rect.width - SCREEN_WIDTH
          /\ (RolloverStep \/ ResetStep) => timer_rect'.width = SCREEN_WIDTH * GENE_LEN
          /\ ~(TickStep \/ RolloverStep \/ ResetStep) => timer_rect' = timer_rect]_vars

\* a manual reset in a frame that began mid-generation has returned the timer
\* to the full width
C18_Witness ==
    /\ pc = "update"
    /\ frame_cmd = "Reset"
    /\ frame_start.frame_counter \in 1 .. (GENE_LEN - 1)
    /\ generation = frame_start.generation + 1
    /\ timer_rect.width = SCREEN_WIDTH * GENE_LEN
    /\ frame_counter = 0

\* ======================================================================
\* C19
\* ======================================================================

\* C19: in every state every rocket's cursor is at most the clock, the clock
\* is at most GENE_LEN, and an Alive rocket's cursor equals the clock; a tick
\* moves a cursor only from a value below GENE_LEN and only by 1, so update
\* never calls next_angle on an exhausted genome, whatever ticks, pauses and
\* manual resets come before.
C19_CursorFollowsClock ==
    /\ [](/\ frame_counter <= GENE_LEN
          /\ \A ind \in RocketInds :
                /\ rockets[ind].dna.curr_gene <= frame_counter
                /\ rockets[ind].state = "Alive" => rockets[ind].dna.curr_gene = frame_counter)
    /\ [][TickStep =>
            \A ind \in RocketInds :
                /\ (~Collides(rockets[ind].pos) /\ ~WithinTarget(rockets[ind].pos)) =>
                      /\ rockets[ind].dna.curr_gene < GENE_LEN
                      /\ rockets'[ind].dna.curr_gene = rockets[ind].dna.curr_gene + 1
                /\ (Collides(rockets[ind].pos) \/ WithinTarget(rockets[ind].pos)) =>
                      rockets'[ind].dna.curr_gene = rockets[ind].dna.curr_gene]_vars

\* paused with the clock at the budget in a generation begun by a manual reset:
\* an Alive rocket's cursor stands at GENE_LEN beside a Dead rocket's lower one
C19_Witness ==
    /\ frame_counter = GENE_LEN
    /\ pause
    /\ base_gen > 0
    /\ \E ind \in RocketInds :
          rockets[ind].state = "Alive" /\ rockets[ind].dna.curr_gene = GENE_LEN
    /\ \E ind \in RocketInds :
          rockets[ind].state = "Dead" /\ rockets[ind].dna.curr_gene < GENE_LEN

\* ======================================================================
\* C20
\* ======================================================================

\* some rocket is off the target's centre: the distance sum is positive
OffCentre == \E ind \in RocketInds : rockets[ind].pos # target

\* C20: with at least 2 rockets and a positive distance sum, whatever the
\* rockets' states and distances, some rocket has fitness >= 1 - 1/ROCKET_COUNT
\* and a share of at least 1, so the pool gen_mating_pool builds is not empty
\* and the restart, by update at the budget or at any clock by a reset, goes
\* through to the next generation; the program aborts in selection only from
\* a population placed entirely on the target's centre.
C20_PoolNotEmpty ==
    /\ [](/\ ROCKET_COUNT >= 2
          /\ (pc = "pooled" /\ StoredDistSum(0) > 0) =>
                /\ Len(mating_pool) > 0
                /\ \E ind \in RocketInds :
                      /\ rockets[ind].dna.fitness.num * ROCKET_COUNT
                            >= (ROCKET_COUNT - 1) * rockets[ind].dna.fitness.den
                      /\ WeightFloor(ind) >= 1
                      /\ PoolCount(ind) >= 1
          /\ (pc = "pooled" /\ OffCentre) => StoredDistSum(0) > 0
          /\ panicked => ~OffCentre /\ generation = 0)
    /\ [][((WorldSelectionStep \/ WorldRestartStep) /\ OffCentre) =>
            (~panicked' /\ generation' = generation + 1)]_vars

\* a pool built from two Dead rockets at the same distance from the target:
\* the least shares a population of 2 can have
C20_Witness ==
    /\ pc = "pooled"
    /\ StoredDistSum(0) > 0
    /\ \A ind \in RocketInds :
          /\ rockets[ind].state = "Dead"
          /\ rockets[ind].dna.fitness.num * ROCKET_COUNT
                = (ROCKET_COUNT - 1) * rockets[ind].dna.fitness.den
          /\ PoolCount(ind) >= 1
          /\ PoolCount(ind) * ROCKET_COUNT = Len(mating_pool)

====
